---- MODULE Spec2Model ----
(***************************************************************************)
(* TomatoDeviceScanner (homeassistant/components/device_tracker/tomato.py) *)
(* as a state machine: the constructor, scan_devices, get_device_name and  *)
(* _update_tomato_info, run by NThreads caller threads against one scanner *)
(* object, a wall clock and a router that answers each request with any    *)
(* response of a fixed table.                                              *)
(***************************************************************************)
EXTENDS Integers, Sequences, FiniteSets, TLC

\* ---------------------------------------------------------------- bounds
NThreads == 2
MaxTime == 6
MaxLease == 2

\* ------------------------------------------------------ program constants
MIN_TIME_BETWEEN_SCANS == 5
None == -1

Threads == 1..NThreads
Fields == {"wldev", "dhcpd_lease"}

\* ------------------------------------------------------- response bodies
\* A value text of the router's dialect: the quote character its string
\* literals use, whether it is otherwise well-formed JSON, and the value a
\* JSON decoder gives it once the quotes are JSON's.
MAC == "AA:BB:CC:DD:EE:FF"
MAC2 == "11:22:33:44:55:66"
Devices == {MAC}

Txt(q, w, v) == [quote |-> q, wf |-> w, value |-> v]
Asg(p, t) == [match |-> TRUE, param |-> p, value |-> t]
Junk == [match |-> FALSE, param |-> "", value |-> Txt("none", FALSE, <<>>)]

WlA == Txt("single", TRUE, << <<"dev1", MAC, "1">> >>)
WlB == Txt("single", TRUE, << <<"dev2", MAC2, "1">>, <<"dev1", MAC, "1">> >>)
WlShort == Txt("single", TRUE, << <<"dev3">> >>)
LeaseA == Txt("single", TRUE, << <<"Phone", "lease1", MAC>> >>)
Garbage == Txt("single", FALSE, <<>>)
LanIp == Txt("single", TRUE, <<>>)

Bodies ==
  << << Asg("wldev", WlA), Junk, Asg("dhcpd_lease", LeaseA) >>,
     << Asg("wldev", WlB), Asg("dhcpd_lease", Garbage) >>,
     << Asg("lan_ip", LanIp), Asg("wldev", WlShort) >> >>

Rsp(k, s, b) == [kind |-> k, status |-> s, body |-> b]

\* What requests.Session().send can end in: a response with a status code,
\* or one of the exceptions of requests.exceptions.
Responses ==
  << Rsp("http", 200, 1), Rsp("http", 200, 2), Rsp("http", 200, 3),
     Rsp("http", 401, 0), Rsp("http", 500, 0),
     Rsp("ConnectionError", 0, 0), Rsp("Timeout", 0, 0),
     Rsp("TooManyRedirects", 0, 0) >>

\* --------------------------------------------------------- pure functions
\* parse_api_pattern.findall(response.text): the (param, value) pairs of the
\* lines the pattern matches, in body order.
findall(body) == SelectSeq(body, LAMBDA ln : ln.match)

\* value.replace("'", '"')
replace(text) == [text EXCEPT !.quote = IF @ = "single" THEN "double" ELSE @]

\* json.loads raises ValueError unless the text is JSON.
json_loads_raises(text) == ~text.wf \/ text.quote = "single"
json_loads(text) == text.value

\* line 109 without the test: every matched parameter is stored.
IsTracked_Any(param) == TRUE

\* line 109: if param in ["wldev", "dhcpd_lease"]
IsTracked(param) == param = "wldev" \/ param = "dhcpd_lease"

\* line 110: self.last_results[param] = ..., the assignment to a key of a
\* dict, which adds the key when the dict does not have it.
DictSet(d, k, v) == [x \in DOMAIN d \cup {k} |-> IF x = k THEN v ELSE d[x]]

\* lines 93-94
IsStale_Inclusive(du, n) == du = None \/ n - du >= MIN_TIME_BETWEEN_SCANS
IsStale(du, n) == du = None \/ n - du > MIN_TIME_BETWEEN_SCANS

\* The value _update_tomato_info hands back for each way it can end.
PollReturn_AuthOk(outcome) ==
  CASE outcome \in {"fresh", "success", "401"} -> "True"
    [] outcome \in {"ConnectionError", "Timeout", "ValueError"} -> "False"
    [] outcome = "status" -> "None"
    [] OTHER -> "raise"
PollReturn_TimeoutLeaks(outcome) ==
  CASE outcome \in {"fresh", "success"} -> "True"
    [] outcome \in {"401", "ConnectionError", "ValueError"} -> "False"
    [] outcome = "status" -> "None"
    [] OTHER -> "raise"
PollReturn(outcome) ==
  CASE outcome \in {"fresh", "success"} -> "True"
    [] outcome \in {"401", "ConnectionError", "Timeout", "ValueError"} -> "False"
    [] outcome = "status" -> "None"
    [] OTHER -> "raise"

Result(k, v) == [kind |-> k, val |-> v]
NoResult == Result("-", <<>>)

\* line 69 with item[0] for item[1].
ScanResult_FirstField(lr) ==
  LET wl == lr["wldev"] IN
  IF \E i \in 1..Len(wl) : Len(wl[i]) < 1
  THEN Result("raise", <<"IndexError">>)
  ELSE Result("list", [i \in 1..Len(wl) |-> wl[i][1]])

\* line 69: [item[1] for item in self.last_results['wldev']]
ScanResult(lr) ==
  LET wl == lr["wldev"] IN
  IF \E i \in 1..Len(wl) : Len(wl[i]) < 2
  THEN Result("raise", <<"IndexError">>)
  ELSE Result("list", [i \in 1..Len(wl) |-> wl[i][2]])

\* lines 78-84 with the name test moved into the filter of line 79.
NameResult_SkipsEmpty(lr, device) ==
  LET ls == lr["dhcpd_lease"]
      hits == SelectSeq(ls, LAMBDA item : item[3] = device /\ item[1] # "")
      filter_named == [i \in 1..Len(hits) |-> hits[i][1]]
  IN IF \E i \in 1..Len(ls) : Len(ls[i]) < 3
     THEN Result("raise", <<"IndexError">>)
     ELSE IF filter_named = <<>>
          THEN Result("none", <<>>)
          ELSE Result("name", <<filter_named[1]>>)

\* lines 78-84
NameResult(lr, device) ==
  LET ls == lr["dhcpd_lease"]
      hits == SelectSeq(ls, LAMBDA item : item[3] = device)
      filter_named == [i \in 1..Len(hits) |-> hits[i][1]]
  IN IF \E i \in 1..Len(ls) : Len(ls[i]) < 3
     THEN Result("raise", <<"IndexError">>)
     ELSE IF filter_named = <<>> \/ filter_named[1] = ""
          THEN Result("none", <<>>)
          ELSE Result("name", <<filter_named[1]>>)

\* ------------------------------------------------------------------ state
\* now: the wall clock; lock, date_updated, last_results, success_init: the
\* scanner's fields; th: where each caller thread is in its call and what it
\* holds. Two history variables record what the code has done: origin, whether
\* each tracked field holds a value of the response that last assigned any of
\* them, and auth_failed, whether a request has ended in 401 since the last
\* successful poll of an established snapshot.
VARIABLES now, lock, date_updated, last_results, success_init, origin,
          auth_failed, th

vars == <<now, lock, date_updated, last_results, success_init, origin,
          auth_failed, th>>

EmptyResults == [f \in Fields |-> <<>>]
NoPre == [lr |-> EmptyResults, du |-> None]

Idle == [pc |-> "idle", op |-> "-", dev |-> "-", resp |-> 0, i |-> 0,
         outcome |-> "-", nreq |-> 0, pre |-> NoPre, out |-> NoResult]

Critical == {"check", "fetch", "parse", "release"}
InUpdate(t) == th[t].pc \in Critical
Constructed == success_init # "unset"

\* lines 56-61: the fields as __init__ sets them, with the constructing
\* thread about to run its _update_tomato_info call.
Init ==
  /\ now = 0
  /\ lock = 0
  /\ date_updated = None
  /\ last_results = EmptyResults
  /\ success_init = "unset"
  /\ origin = [f \in Fields |-> "same"]
  /\ auth_failed = FALSE
  /\ th = [t \in Threads |->
             IF t = 1 THEN [Idle EXCEPT !.pc = "acquire", !.op = "init"]
             ELSE Idle]

\* The freshness window of the last successful poll is open.
InWindow == date_updated # None /\ now - date_updated <= MIN_TIME_BETWEEN_SCANS

\* The wall clock advances.
Tick ==
  /\ now < MaxTime
  /\ now' = now + 1
  /\ UNCHANGED <<lock, date_updated, last_results, success_init, origin,
                 auth_failed, th>>

\* A caller enters scan_devices (line 67).
CallScan(t) ==
  /\ Constructed
  /\ th[t].pc = "idle"
  /\ th' = [th EXCEPT ![t] = [Idle EXCEPT !.pc = "acquire", !.op = "scan"]]
  /\ UNCHANGED <<now, lock, date_updated, last_results, success_init, origin,
                 auth_failed>>

\* lines 75-76 without the test of line 75: the lookup always polls first.
CallName_AlwaysPolls(t, device) ==
  /\ Constructed
  /\ th[t].pc = "idle"
  /\ th' = [th EXCEPT ![t] = [Idle EXCEPT
              !.pc = "acquire", !.op = "name", !.dev = device]]
  /\ UNCHANGED <<now, lock, date_updated, last_results, success_init, origin,
                 auth_failed>>

\* A caller enters get_device_name(device) and tests date_updated (line 75)
\* without the lock.
CallName(t, device) ==
  /\ Constructed
  /\ th[t].pc = "idle"
  /\ th' = [th EXCEPT ![t] = [Idle EXCEPT
              !.pc = IF date_updated = None THEN "acquire" ELSE "read",
              !.op = "name", !.dev = device]]
  /\ UNCHANGED <<now, lock, date_updated, last_results, success_init, origin,
                 auth_failed>>

\* line 90: self.lock.acquire() blocks until the lock is free.
CanAcquire_NoLock(t) == TRUE
CanAcquire(t) == lock = 0

Acquire(t) ==
  /\ th[t].pc = "acquire"
  /\ CanAcquire(t)
  /\ lock' = t
  /\ th' = [th EXCEPT ![t].pc = "check"]
  /\ UNCHANGED <<now, date_updated, last_results, success_init, origin,
                 auth_failed>>

\* lines 93-99 and 153-158: the staleness decision; a stale cache sends the
\* request, a fresh one goes to the release of line 156.
Check(t) ==
  /\ th[t].pc = "check"
  /\ IF IsStale(date_updated, now)
     THEN th' = [th EXCEPT ![t].pc = "fetch", ![t].nreq = @ + 1,
                           ![t].pre = [lr |-> last_results, du |-> date_updated]]
     ELSE th' = [th EXCEPT ![t].pc = "release", ![t].outcome = "fresh"]
  /\ UNCHANGED <<now, lock, date_updated, last_results, success_init, origin,
                 auth_failed>>

\* lines 99, 105, 118, 126, 135: the request ends; status 200 starts the loop
\* over the matches, every other end picks its exit.
Receive(t, r) ==
  /\ th[t].pc = "fetch"
  /\ LET rs == Responses[r] IN
     th' = [th EXCEPT ![t] =
        IF rs.kind = "http"
        THEN IF rs.status = 200
             THEN [@ EXCEPT !.pc = "parse", !.resp = r, !.i = 1]
             ELSE [@ EXCEPT !.pc = "release", !.resp = r,
                            !.outcome = IF rs.status = 401 THEN "401" ELSE "status"]
        ELSE [@ EXCEPT !.pc = "release", !.resp = r, !.outcome = rs.kind]]
  /\ auth_failed' = (auth_failed \/ (Responses[r].kind = "http"
                                      /\ Responses[r].status = 401
                                      /\ date_updated # None))
  /\ UNCHANGED <<now, lock, date_updated, last_results, success_init, origin>>

Matches(t) == findall(Bodies[Responses[th[t].resp].body])

\* The tracked fields the poll of thread t has assigned so far.
Written(t) == {Matches(t)[j].param : j \in 1..(th[t].i - 1)} \cap Fields

\* Whether each tracked field holds a value of the response that was the
\* last to assign any of them: an assignment makes a field this poll has not
\* assigned hold an older value.
OriginAfter(t, param) ==
  [f \in Fields |->
     IF f = param \/ f \in Written(t) THEN origin[f] ELSE "older"]

\* lines 107-112 with the stamp of line 114 moved into the ValueError exit.
ParseStep_StampsOnError(t) ==
  /\ th[t].pc = "parse"
  /\ th[t].i <= Len(Matches(t))
  /\ LET m == Matches(t)[th[t].i] IN
     IF IsTracked(m.param)
     THEN IF json_loads_raises(replace(m.value))
          THEN /\ th' = [th EXCEPT ![t].pc = "release", ![t].outcome = "ValueError"]
               /\ date_updated' = now
               /\ UNCHANGED <<last_results, origin>>
          ELSE /\ last_results' =
                    DictSet(last_results, m.param, json_loads(replace(m.value)))
               /\ origin' = [OriginAfter(t, m.param) EXCEPT ![m.param] = "same"]
               /\ th' = [th EXCEPT ![t].i = @ + 1]
               /\ UNCHANGED date_updated
     ELSE /\ th' = [th EXCEPT ![t].i = @ + 1]
          /\ UNCHANGED <<last_results, origin, date_updated>>
  /\ UNCHANGED <<now, lock, success_init, auth_failed>>

\* lines 107-112: one iteration of the loop over the matches.
ParseStep(t) ==
  /\ th[t].pc = "parse"
  /\ th[t].i <= Len(Matches(t))
  /\ LET m == Matches(t)[th[t].i] IN
     IF IsTracked(m.param)
     THEN IF json_loads_raises(replace(m.value))
          THEN /\ th' = [th EXCEPT ![t].pc = "release", ![t].outcome = "ValueError"]
               /\ UNCHANGED <<last_results, origin>>
          ELSE /\ last_results' =
                    DictSet(last_results, m.param, json_loads(replace(m.value)))
               /\ origin' = [OriginAfter(t, m.param) EXCEPT ![m.param] = "same"]
               /\ th' = [th EXCEPT ![t].i = @ + 1]
     ELSE /\ th' = [th EXCEPT ![t].i = @ + 1]
          /\ UNCHANGED <<last_results, origin>>
  /\ UNCHANGED <<now, lock, date_updated, success_init, auth_failed>>

\* lines 114-116 without the assignment of line 114.
Stamp_KeepsDate(t) ==
  /\ th[t].pc = "parse"
  /\ th[t].i > Len(Matches(t))
  /\ th' = [th EXCEPT ![t].pc = "release", ![t].outcome = "success"]
  /\ auth_failed' = FALSE
  /\ UNCHANGED <<now, lock, date_updated, last_results, success_init, origin>>

\* lines 114-116: the loop is over.
Stamp(t) ==
  /\ th[t].pc = "parse"
  /\ th[t].i > Len(Matches(t))
  /\ date_updated' = now
  /\ th' = [th EXCEPT ![t].pc = "release", ![t].outcome = "success"]
  /\ auth_failed' = FALSE
  /\ UNCHANGED <<now, lock, last_results, success_init, origin>>

\* lines 150-151 and 156: the lock after the exit of _update_tomato_info.
LockAfterExit_NoFinally(t) == IF PollReturn(th[t].outcome) = "raise" THEN lock ELSE 0
LockAfterExit(t) == 0

\* lines 150-158, then the caller's next line: line 61 stores the value,
\* lines 69 and 78 go on to read the cache, an exception goes up.
Release(t) ==
  /\ th[t].pc = "release"
  /\ lock' = LockAfterExit(t)
  /\ LET ret == PollReturn(th[t].outcome)
         left == IF th[t].op = "init"
                 THEN [th[t] EXCEPT !.resp = 0, !.i = 0, !.pre = NoPre]
                 ELSE [Idle EXCEPT !.op = th[t].op, !.dev = th[t].dev]
     IN
     /\ th' = [th EXCEPT ![t] =
          IF ret = "raise"
          THEN [left EXCEPT !.pc = "ret", !.out = Result("raise", <<th[t].outcome>>)]
          ELSE IF left.op = "init" THEN [left EXCEPT !.pc = "ret"]
               ELSE [left EXCEPT !.pc = "read"]]
     /\ success_init' = IF th[t].op = "init" /\ ret # "raise" THEN ret
                        ELSE success_init
  /\ UNCHANGED <<now, date_updated, last_results, origin, auth_failed>>

\* lines 69 and 78-84: the cache is read, without the lock.
Read(t) ==
  /\ th[t].pc = "read"
  /\ th' = [th EXCEPT ![t].pc = "ret",
                      ![t].out = IF th[t].op = "scan" THEN ScanResult(last_results)
                                 ELSE NameResult(last_results, th[t].dev)]
  /\ UNCHANGED <<now, lock, date_updated, last_results, success_init, origin,
                 auth_failed>>

\* The call hands its result to the caller. A constructor that raised has
\* made no scanner.
Return(t) ==
  /\ th[t].pc = "ret"
  /\ Constructed
  /\ th' = [th EXCEPT ![t] = Idle]
  /\ UNCHANGED <<now, lock, date_updated, last_results, success_init, origin,
                 auth_failed>>

Next ==
  \/ Tick
  \/ \E t \in Threads : CallScan(t)
  \/ \E t \in Threads, d \in Devices : CallName(t, d)
  \/ \E t \in Threads : Acquire(t)
  \/ \E t \in Threads : Check(t)
  \/ \E t \in Threads, r \in 1..Len(Responses) : Receive(t, r)
  \/ \E t \in Threads : ParseStep(t)
  \/ \E t \in Threads : Stamp(t)
  \/ \E t \in Threads : Release(t)
  \/ \E t \in Threads : Read(t)
  \/ \E t \in Threads : Return(t)

Spec == Init /\ [][Next]_vars

\* The steps of a call that is under way are taken: every thread that can go
\* on does (weak fairness), a request ends (line 99, timeout=3), and a thread
\* that waits at line 90 gets the lock if the lock is free again and again
\* (strong fairness). The callers and the clock are under no obligation.
Fairness ==
  \A t \in Threads :
     /\ SF_vars(Acquire(t))
     /\ WF_vars(Check(t))
     /\ WF_vars(\E r \in 1..Len(Responses) : Receive(t, r))
     /\ WF_vars(ParseStep(t))
     /\ WF_vars(Stamp(t))
     /\ WF_vars(Release(t))
     /\ WF_vars(Read(t))

SpecFair == Spec /\ Fairness

\* --------------------------------------------------- the lookup on its own
\* get_device_name against a scanner whose last poll succeeded: the cached
\* lease list is any list of at most MaxLease entries a response can carry.
LeaseNames == {"", "Phone", "Laptop"}
LeaseEntries == {<<n, "lease", m>> : n \in LeaseNames, m \in {MAC, MAC2}}
LeaseLists == UNION {[1..k -> LeaseEntries] : k \in 0..MaxLease}

InitLookup ==
  /\ now = 0
  /\ lock = 0
  /\ date_updated = 0
  /\ \E ls \in LeaseLists :
        last_results = [wldev |-> json_loads(replace(WlA)), dhcpd_lease |-> ls]
  /\ success_init = "True"
  /\ origin = [f \in Fields |-> "same"]
  /\ auth_failed = FALSE
  /\ th = [t \in Threads |-> Idle]

NextLookup ==
  \/ \E t \in Threads, d \in Devices : CallName(t, d)
  \/ \E t \in Threads : Read(t)
  \/ \E t \in Threads : Return(t)

SpecLookup == InitLookup /\ [][NextLookup]_vars

\* ----------------------------------------------------------------- claims
Failures == {"401", "status", "ConnectionError", "Timeout", "ValueError"}

\* The tracked values of the response of thread t's poll all decode.
WillParse(t) ==
  \A j \in 1..Len(Matches(t)) :
     IsTracked(Matches(t)[j].param) => ~json_loads_raises(replace(Matches(t)[j].value))

\* C1: while the freshness window of a successful poll is open (date_updated
\* set and now - date_updated <= 5 seconds), no step of any thread issues a
\* network request and no step changes last_results or date_updated, so every
\* scan_devices and get_device_name call that reads the cache in the window
\* computes its result from the same cache.
Throttling ==
  [][InWindow =>
       /\ \A t \in Threads : th'[t].pc = "fetch" => th[t].pc = "fetch"
       /\ last_results' = last_results
       /\ date_updated' = date_updated
       /\ \A t \in Threads :
            (th[t].pc = "read" /\ th'[t].pc = "ret") =>
               th'[t].out = IF th[t].op = "scan" THEN ScanResult(last_results)
                            ELSE NameResult(last_results, th[t].dev)]_vars

\* A call decided "fresh" at the very edge of the window, 5 seconds after the
\* poll, while another call is reading the cache.
ThrottlingWitness ==
  /\ date_updated # None
  /\ now - date_updated = MIN_TIME_BETWEEN_SCANS
  /\ \E t \in Threads : th[t].pc = "release" /\ th[t].outcome = "fresh"
  /\ \E t \in Threads : th[t].pc = "ret" /\ th[t].out.kind = "list"

\* C2: whenever one thread is inside the loop that assigns the tracked fields
\* and another thread is about to read the cache, wldev and dhcpd_lease hold
\* values of the same response (or both the initial empty lists).
Atomicity ==
  \A t \in Threads, u \in Threads :
     (th[t].pc = "parse" /\ th[u].pc = "read") =>
        origin["wldev"] = origin["dhcpd_lease"]

\* C3: a poll that ends in ValueError returns False and leaves last_results and
\* date_updated as they were when the poll began.
ParseFailureLeavesCache ==
  \A t \in Threads :
     (th[t].pc = "release" /\ th[t].outcome = "ValueError") =>
        /\ PollReturn(th[t].outcome) = "False"
        /\ last_results = th[t].pre.lr
        /\ date_updated = th[t].pre.du

\* C4: once a request of an established snapshot has ended in 401, the list
\* scan_devices returns stays the one it was until the next successful poll:
\* the 401 poll leaves last_results and date_updated unchanged and returns
\* False, and no poll that is not going to succeed assigns last_results.
AuthFailureKeepsList ==
  [][/\ \A t \in Threads :
          (th'[t].pc = "release" /\ th'[t].outcome = "401") =>
             /\ PollReturn(th'[t].outcome) = "False"
             /\ last_results' = th'[t].pre.lr
             /\ date_updated' = th'[t].pre.du
     /\ \A t \in Threads :
          (auth_failed /\ th[t].pc = "parse" /\ ~WillParse(t)) =>
             ScanResult(last_results') = ScanResult(last_results)]_vars

\* C5: a poll whose request ends in a connection error or a timeout returns
\* False and leaves last_results and date_updated as they were when it began.
TransientFailureLeavesCache ==
  \A t \in Threads :
     (th[t].pc = "release" /\ th[t].outcome \in {"ConnectionError", "Timeout"}) =>
        /\ PollReturn(th[t].outcome) = "False"
        /\ last_results = th[t].pre.lr
        /\ date_updated = th[t].pre.du

\* A timeout of a poll that refreshes an established snapshot.
TransientFailureWitness ==
  \E t \in Threads :
     /\ th[t].pc = "release"
     /\ th[t].outcome = "Timeout"
     /\ date_updated # None
     /\ last_results["wldev"] # <<>>

\* C6: the lock is held by a thread exactly while that thread is between the
\* acquire and the exit of _update_tomato_info, whichever way it exits: when no
\* thread is inside, the lock is free, and only the holder's exit frees it.
LockReleasedOnExit ==
  /\ \A t \in Threads : InUpdate(t) <=> lock = t
  /\ lock \in Threads \cup {0}

\* The lock is free after an exception went through _update_tomato_info
\* uncaught, and a thread that was waiting for it has got it.
LockReleasedWitness ==
  \E t \in Threads, u \in Threads :
     /\ th[t].pc = "ret"
     /\ th[t].out = Result("raise", <<"TooManyRedirects">>)
     /\ lock = u
     /\ u # t

\* C7: at most one thread is between the acquire and the exit of
\* _update_tomato_info, so at most one request is in flight and the staleness
\* decision, request and cache update of two calls never overlap.
FetchMutualExclusion ==
  /\ Cardinality({t \in Threads : InUpdate(t)}) <= 1
  /\ Cardinality({t \in Threads : th[t].pc = "fetch"}) <= 1

\* A request is in flight while another thread waits for the lock.
FetchMutualExclusionWitness ==
  \E t \in Threads, u \in Threads :
     th[t].pc = "fetch" /\ th[u].pc = "acquire"

\* C8: no call of the constructor, scan_devices or get_device_name ends in an
\* exception.
NoErrorEscapes == \A t \in Threads : th[t].out.kind # "raise"

\* C9: the constructor issues exactly one request; a connection error, timeout,
\* 401 or parse error does not make it raise and leaves success_init False;
\* success_init is True exactly when that request returned 200 and parsed; and
\* while no poll has succeeded every later scan_devices call issues a request.
Construction ==
  /\ \A t \in Threads :
       (th[t].op = "init" /\ th[t].pc = "ret") =>
          /\ th[t].nreq = 1
          /\ th[t].outcome \in {"ConnectionError", "Timeout", "401", "ValueError"} =>
                (th[t].out.kind # "raise" /\ success_init = "False")
          /\ th[t].out.kind # "raise" => success_init = PollReturn(th[t].outcome)
          /\ success_init = "True" <=> th[t].outcome = "success"
  /\ \A t \in Threads :
       (th[t].op = "scan" /\ th[t].pc = "release" /\ date_updated = None) =>
          (th[t].nreq = 1 /\ th[t].outcome # "fresh")

\* The scanner was constructed with a failed first poll and a later
\* scan_devices call has its request in flight.
ConstructionWitness ==
  /\ success_init = "False"
  /\ \E t \in Threads : th[t].op = "scan" /\ th[t].pc = "fetch"

\* C10: a scan_devices call that returns a list while date_updated is still
\* unset returns the empty list.
EmptyBeforeFirstSuccess ==
  \A t \in Threads :
     (th[t].pc = "ret" /\ th[t].op = "scan" /\ th[t].out.kind = "list"
        /\ date_updated = None) => th[t].out.val = <<>>

\* C11: date_updated changes only in the step that ends a poll in Success
\* (status 200, every tracked value decoded); that step sets it to the clock's
\* reading, which is never less than the value it replaces; no failed poll and
\* no cache hit changes it.
DateUpdatedOnlyOnSuccess ==
  [][date_updated' # date_updated =>
       /\ \E t \in Threads :
             /\ th[t].pc = "parse"
             /\ Responses[th[t].resp].status = 200
             /\ WillParse(t)
             /\ th'[t].pc = "release"
             /\ th'[t].outcome = "success"
             /\ PollReturn(th'[t].outcome) = "True"
       /\ date_updated' = now
       /\ date_updated' # None
       /\ date_updated = None \/ date_updated' >= date_updated]_vars

\* A second successful poll has moved date_updated forward.
DateUpdatedWitness ==
  \E t \in Threads :
     /\ th[t].pc = "release"
     /\ th[t].outcome = "success"
     /\ th[t].pre.du # None
     /\ date_updated > th[t].pre.du

\* C12: when a poll ends in Success, every tracked field of the cache holds a
\* value this poll's response assigned (or is still the empty list nothing has
\* ever replaced): no value of an earlier poll remains.
WholesaleReplacement ==
  \A t \in Threads :
     (th[t].pc = "release" /\ th[t].outcome = "success") =>
        \A f \in Fields : f \in Written(t) \/ last_results[f] = <<>>

\* The reference lookup: the index of the first entry of ls, from position i
\* on, whose third field is d (0 if there is none).
RECURSIVE FirstIndex(_, _, _)
FirstIndex(ls, d, i) ==
  IF i > Len(ls) THEN 0
  ELSE IF ls[i][3] = d THEN i ELSE FirstIndex(ls, d, i + 1)

RefName(ls, d) ==
  LET k == FirstIndex(ls, d, 1) IN
  IF k = 0 THEN Result("none", <<>>)
  ELSE IF ls[k][1] = "" THEN Result("none", <<>>)
       ELSE Result("name", <<ls[k][1]>>)

\* C13: get_device_name(d) returns the first field of the first entry of the
\* cached lease list whose third field is d when that name is non-empty, and
\* None when there is no such entry or its name is empty, whatever later
\* entries with the same identifier hold.
NameIsFirstMatch ==
  \A t \in Threads :
     (th[t].pc = "ret" /\ th[t].op = "name") =>
        th[t].out = RefName(last_results["dhcpd_lease"], th[t].dev)

\* The first of two entries of the device has an empty name, the second has
\* one, and the call has returned None.
NameIsFirstMatchWitness ==
  \E t \in Threads :
     /\ th[t].pc = "ret"
     /\ th[t].op = "name"
     /\ last_results["dhcpd_lease"] =
           << <<"", "lease", th[t].dev>>, <<"Laptop", "lease", th[t].dev>> >>
     /\ th[t].out = Result("none", <<>>)

\* The reference: the second fields of the entries of wl, one per entry, in
\* list order.
RECURSIVE SecondFields(_)
SecondFields(wl) ==
  IF wl = <<>> THEN <<>> ELSE <<Head(wl)[2]>> \o SecondFields(Tail(wl))

HasSecondFields(wl) == \A i \in 1..Len(wl) : Len(wl[i]) >= 2

\* C14: the list scan_devices returns is the sequence of second fields of the
\* entries of the cached wldev list, one per entry and in the list's order
\* (for a list whose entries have a second field); and the successful poll of
\* the body wldev = [['dev1','AA:BB:CC:DD:EE:FF','1']]; dhcpd_lease =
\* [['Phone','lease1','AA:BB:CC:DD:EE:FF']]; leaves a cache from which
\* scan_devices gives ['AA:BB:CC:DD:EE:FF'] and get_device_name of that
\* identifier gives 'Phone'.
ScanIsSecondFields ==
  [][/\ \A t \in Threads :
          (th[t].pc = "read" /\ th[t].op = "scan" /\ th'[t].pc = "ret"
             /\ HasSecondFields(last_results["wldev"])) =>
             th'[t].out = Result("list", SecondFields(last_results["wldev"]))
     /\ \A t \in Threads :
          (th'[t].pc = "release" /\ th'[t].outcome = "success"
             /\ Bodies[Responses[th'[t].resp].body]
                  = << Asg("wldev", WlA), Junk, Asg("dhcpd_lease", LeaseA) >>) =>
             /\ ScanResult(last_results') = Result("list", <<MAC>>)
             /\ NameResult(last_results', MAC) = Result("name", <<"Phone">>)]_vars

\* A scan_devices call has returned the two identifiers of a two-entry list in
\* the list's order.
ScanIsSecondFieldsWitness ==
  \E t \in Threads :
     /\ th[t].pc = "ret"
     /\ th[t].op = "scan"
     /\ last_results["wldev"] = json_loads(replace(WlB))
     /\ th[t].out = Result("list", <<MAC2, MAC>>)

\* C15: every invocation of the poll that returns yields a boolean, True
\* exactly when the cache was fresh or the fetch returned 200 and parsed and
\* False for every other outcome, an HTTP status other than 200 and 401
\* included; so success_init is a boolean as well.
PollYieldsBoolean ==
  /\ \A t \in Threads :
       (th[t].pc = "release" /\ PollReturn(th[t].outcome) # "raise") =>
          /\ PollReturn(th[t].outcome) \in {"True", "False"}
          /\ PollReturn(th[t].outcome) = "True"
               <=> th[t].outcome \in {"fresh", "success"}
  /\ success_init # "None"

\* C16: in every reachable state last_results has exactly the keys wldev and
\* dhcpd_lease: neither is ever missing and no other key is ever added.
BothKeysPresent == DOMAIN last_results = Fields

\* A poll of a body that also assigns a parameter the scanner does not track
\* (lan_ip) has run to its end.
BothKeysPresentWitness ==
  \E t \in Threads :
     /\ th[t].pc = "release"
     /\ th[t].outcome = "success"
     /\ \E j \in 1..Len(Matches(t)) : ~IsTracked(Matches(t)[j].param)
     /\ DOMAIN last_results = Fields

\* C17: a poll invocation sends a request if and only if, when it holds the
\* lock and tests the cache, date_updated is unset or now - date_updated is
\* strictly greater than 5 seconds; otherwise, at exactly 5 seconds too, it
\* returns True, sends nothing and leaves last_results and date_updated as
\* they were.
FreshnessDecision ==
  [][\A t \in Threads :
       /\ th[t].pc = "check" /\ th'[t].pc # "check" =>
            /\ lock = t
            /\ IF date_updated = None \/ now - date_updated > 5
               THEN th'[t].pc = "fetch" /\ th'[t].nreq = 1
               ELSE /\ th'[t].pc = "release"
                    /\ th'[t].nreq = 0
                    /\ PollReturn(th'[t].outcome) = "True"
                    /\ last_results' = last_results
                    /\ date_updated' = date_updated
       /\ th'[t].nreq # th[t].nreq /\ th'[t].nreq # 0 =>
            th[t].pc = "check" /\ th'[t].pc = "fetch"
       /\ th'[t].pc = "fetch" /\ th[t].pc # "fetch" => th[t].pc = "check"]_vars

\* An invocation has found the cache exactly 5 seconds old and goes to its
\* exit without a request.
FreshnessDecisionWitness ==
  \E t \in Threads :
     /\ th[t].pc = "release"
     /\ th[t].outcome = "fresh"
     /\ th[t].nreq = 0
     /\ lock = t
     /\ now - date_updated = MIN_TIME_BETWEEN_SCANS

\* C18: get_device_name invokes the poll if and only if date_updated is unset
\* when the call tests it. An invocation it makes that still finds
\* date_updated unset at its own test sends one request before the lookup; a
\* call that found date_updated set sends no request, however old the
\* snapshot is, and answers from the cached lease list only.
NamePollsOnlyWhenUnset ==
  [][\A t \in Threads :
       /\ th[t].pc = "idle" /\ th'[t].op = "name" =>
            /\ th'[t].pc = "acquire" <=> date_updated = None
            /\ th'[t].pc = "read" <=> date_updated # None
            /\ th'[t].nreq = 0
       /\ (th[t].op = "name" /\ th[t].pc = "check" /\ th'[t].pc # "check"
             /\ date_updated = None) =>
            th'[t].pc = "fetch" /\ th'[t].nreq = 1
       /\ th[t].op = "name" /\ th[t].pc = "read" /\ th'[t] # th[t] =>
            /\ th'[t].pc = "ret"
            /\ th'[t].nreq = th[t].nreq
            /\ th'[t].out = NameResult(last_results, th[t].dev)
            /\ last_results' = last_results]_vars

\* A lookup answers from a snapshot older than the scan interval: it found
\* date_updated set, so it is at its read without having sent anything.
NamePollsOnlyWhenUnsetWitness ==
  \E t \in Threads :
     /\ th[t].op = "name"
     /\ th[t].pc = "ret"
     /\ date_updated # None
     /\ now - date_updated > MIN_TIME_BETWEEN_SCANS
     /\ lock = 0
     /\ origin = [f \in Fields |-> "same"]
     /\ th[t].out = Result("name", <<"Phone">>)

\* The value the response of thread t assigns to wldev.
ResponseWldev(t) ==
  LET ms == SelectSeq(Matches(t), LAMBDA m : m.param = "wldev")
  IN  json_loads(replace(ms[Len(ms)].value))

\* C19: when the fetch of the thread that holds the lock succeeds, the
\* freshness window opens with the device list of that response in the cache;
\* every scan_devices call that acquires the lock inside the window sends no
\* request of its own, nothing writes the cache while the window is open, and
\* a scan_devices call that reads inside the window returns the identifiers
\* of that cached list.
WaitersReuseResult ==
  [][/\ \A t \in Threads :
          (th[t].pc = "parse" /\ th'[t].pc = "release"
             /\ th'[t].outcome = "success") =>
             /\ InWindow'
             /\ th'[t].nreq = 1
             /\ "wldev" \in Written(t) =>
                  last_results'["wldev"] = ResponseWldev(t)
     /\ \A t \in Threads :
          (th[t].op = "scan" /\ th[t].pc = "check" /\ th'[t].pc # "check"
             /\ InWindow) =>
             /\ th'[t].pc = "release"
             /\ th'[t].outcome = "fresh"
             /\ th'[t].nreq = 0
     /\ InWindow =>
          /\ last_results' = last_results
          /\ \A t \in Threads : th'[t].nreq = 0 \/ th'[t].nreq = th[t].nreq
          /\ \A t \in Threads :
               (th[t].op = "scan" /\ th[t].pc = "read" /\ th'[t].pc = "ret") =>
                  th'[t].out = ScanResult(last_results)]_vars

\* The winner's poll has just succeeded with a one-entry list and it is about
\* to read; the other scan_devices call got the lock in the same second and
\* goes to its exit without a request.
WaitersReuseResultWitness ==
  \E t, u \in Threads :
     /\ t # u
     /\ th[t].op = "scan" /\ th[t].pc = "read"
     /\ th[u].op = "scan" /\ th[u].pc = "release"
     /\ th[u].outcome = "fresh" /\ th[u].nreq = 0
     /\ date_updated = now
     /\ th[t].dev = "-" /\ auth_failed = FALSE
     /\ last_results["wldev"] = json_loads(replace(WlA))
     /\ ScanResult(last_results) = Result("list", <<MAC>>)

\* C20: one poll invocation sends at most one request, and a fetch that fails
\* (401, another status, connection error, timeout, parse error) leaves
\* date_updated as it was, so that it opens no freshness window: the next
\* scan_devices invocation that finds date_updated unset or older than 5
\* seconds sends a new request, however recent the failed one is.
FailuresNotThrottled ==
  [][\A t \in Threads :
       /\ th'[t].nreq <= 1
       /\ (th[t].pc \in {"fetch", "parse"} /\ th'[t].pc = "release"
             /\ th'[t].outcome \in {"401", "status", "ConnectionError",
                                    "Timeout", "ValueError"}) =>
            /\ date_updated' = th[t].pre.du
            /\ th'[t].nreq = 1
            /\ PollReturn(th'[t].outcome) # "True"
       /\ (th[t].op = "scan" /\ th[t].pc = "check" /\ th'[t].pc # "check"
             /\ (date_updated = None \/ now - date_updated > 5)) =>
            th'[t].pc = "fetch" /\ th'[t].nreq = 1]_vars

\* The router has refused the credentials after the last successful poll, and
\* in the same second a scan_devices invocation sends the next request.
FailuresNotThrottledWitness ==
  \E t \in Threads :
     /\ auth_failed
     /\ th[t].op = "scan"
     /\ th[t].pc = "fetch"
     /\ th[t].nreq = 1
     /\ date_updated = 0
     /\ now = date_updated + MIN_TIME_BETWEEN_SCANS + 1

SuccessImpliesSnapshot ==
  /\ [](/\ success_init = "True" => date_updated # None
        /\ \A t \in Threads :
             (th[t].pc = "release" /\ PollReturn(th[t].outcome) = "True") =>
                date_updated # None)
  /\ [][/\ date_updated # None => date_updated' # None
        /\ (date_updated = None /\ date_updated' # None) =>
             \E t \in Threads :
                /\ th[t].pc = "parse" /\ th'[t].pc = "release"
                /\ Responses[th[t].resp].status = 200
                /\ th[t].i = Len(Matches(t)) + 1
                /\ \A j \in 1..Len(Matches(t)) :
                     IsTracked(Matches(t)[j].param) =>
                        ~json_loads_raises(replace(Matches(t)[j].value))
        /\ \A t \in Threads :
             (th[t].pc = "parse" /\ th'[t].pc = "release"
                /\ th[t].i = Len(Matches(t)) + 1) =>
                date_updated' # None]_vars

\* The scanner was constructed with a successful first poll and a later
\* invocation is about to return True from the cache.
SuccessImpliesSnapshotWitness ==
  /\ success_init = "True"
  /\ date_updated # None
  /\ \E t \in Threads :
        /\ th[t].op = "scan" /\ th[t].pc = "release"
        /\ th[t].outcome = "fresh"

TypeOK ==
  /\ now \in 0..MaxTime
  /\ lock \in 0..NThreads
  /\ date_updated \in {None} \cup 0..MaxTime
  /\ success_init \in {"unset", "True", "False", "None"}
  /\ \A t \in Threads : th[t].pc \in {"idle", "acquire", "check", "fetch",
                                      "parse", "release", "read", "ret"}
====
